---- MODULE Spec2Model ----
(***************************************************************************)
(* Model of falsa's native batch generators (src/src/lib.rs):              *)
(* generate_groupby, generate_join_dataset_small,                          *)
(* generate_join_dataset_medium and generate_join_dataset_big.             *)
(*                                                                         *)
(* Representation choices.                                                 *)
(*  - A ChaCha8Rng is the pair [seed, pos]: the seed it was created from   *)
(*    and the number of samples drawn so far.  The stream itself is a      *)
(*    fixed function of (seed, pos), ChaCha8Word.                          *)
(*  - A distribution is its closed range [lo, hi]; a sample maps the       *)
(*    stream word onto an evenly spaced grid of that range, both ends      *)
(*    included.  Float ranges are represented by their integer grid.       *)
(*  - A Vec<i64> of keys is kept symbolically: the permutation it was cut  *)
(*    from (code, D) and the index segments [from, to) it holds, so that   *)
(*    the program's own constants (1_000_000, 1_000) are kept unscaled.    *)
(*  - An Arrow cell is None (null) or Some(v); a formatted id string is    *)
(*    the record [prefix, digits].                                         *)
(*  - log is a history variable: the samples drawn by the running call.    *)
(***************************************************************************)
EXTENDS Integers, Sequences, FiniteSets, TLC

VARIABLES pc, args, calls, rng, keys_rng, keys, pools, cols, i, log, returned

vars == <<pc, args, calls, rng, keys_rng, keys, pools, cols, i, log, returned>>

(* ------------------------------ bounds -------------------------------- *)

\* Grid points a sample can take in its range.
Quantiles == 3
\* Period of the modelled stream, in samples.
Period == 4
MaxSeed == 53
MaxKeysSeed == 4
MaxBatch == 2
MaxCalls == 2

(* ------------------------- program constants -------------------------- *)

MILLION == 1000000
THOUSAND == 1000

(* --------------------------- argument values ------------------------- *)

GroupbyN == {1, 7, 100}
GroupbyK == {1, 2, 10}
NasValues == {0, 50, 100}
JoinN == {1000001, 1900000, 3000000}

(* ----------------------------- cells ---------------------------------- *)

None == <<>>
Some(v) == <<v>>

append_null(builder) == Append(builder, None)
append_value(builder, v) == Append(builder, Some(v))

Columns == {"id1", "id2", "id3", "id4", "id5", "id6", "v1", "v2", "v3"}
NoColumns == [c \in Columns |-> <<>>]

(* --------------------------- formatting ------------------------------- *)

RECURSIVE Digits(_)
Digits(x) == IF x < 10 THEN <<x>> ELSE Append(Digits(x \div 10), x % 10)

RECURSIVE ZeroPad(_, _)
ZeroPad(width, ds) == IF Len(ds) >= width THEN ds ELSE ZeroPad(width, <<0>> \o ds)

\* format!("id{:0w}", x); width 0 is format!("id{}", x).
format_id(width, x) == [prefix |-> "id", digits |-> ZeroPad(width, Digits(x))]

RECURSIVE NumberOf(_)
NumberOf(ds) == IF ds = <<>> THEN 0 ELSE 10 * NumberOf(SubSeq(ds, 1, Len(ds) - 1)) + ds[Len(ds)]

(* ------------------------------ streams ------------------------------- *)

RECURSIVE Pow(_, _)
Pow(b, e) == IF e = 0 THEN 1 ELSE b * Pow(b, e - 1)

\* The word the stream of `seed` yields at position `pos`.
ChaCha8Word(seed, pos) == (seed \div Pow(Quantiles, pos % Period)) % Quantiles

seed_from_u64_shared(seed) == IF calls = 0 THEN [seed |-> seed, pos |-> 0] ELSE rng
seed_from_u64(seed) == [seed |-> seed, pos |-> 0]

Advance(r, k) == [r EXCEPT !.pos = @ + k]

\* Uniform::try_from(lo..=hi) succeeds iff the range is not empty.
Uniform(lo, hi) == [lo |-> lo, hi |-> hi]
RangeOk(d) == d.lo <= d.hi
Support(d) == d.lo .. d.hi

sample(d, r) == d.lo + (ChaCha8Word(r.seed, r.pos) * (d.hi - d.lo)) \div (Quantiles - 1)

distr_5 == Uniform(1, 5)
distr_15 == Uniform(1, 15)
distr_nas == Uniform(0, 100)
distr_float_groupby == Uniform(0, 100)
distr_float_join == Uniform(1, 100)
distr_k == Uniform(1, args.k)
distr_nk == Uniform(1, args.n \div args.k)

Draw(r, row, col, kind) == [pos |-> r.pos, row |-> row, col |-> col, kind |-> kind]

(* ---------------------------- key vectors ----------------------------- *)

\* (1..=d).collect()
collect(d) == [code |-> 0, D |-> IF d < 0 THEN 0 ELSE d,
               segs |-> << <<0, IF d < 0 THEN 0 ELSE d>> >>]

\* Element i (0-based) of the permutation `code` of 1..D.
PermAt(code, D, idx) ==
    IF code = 0 THEN idx + 1
    ELSE IF code = 1 THEN D - idx
    ELSE ((idx + code - 1) % D) + 1

RECURSIVE SegsLen(_)
SegsLen(segs) == IF segs = <<>> THEN 0 ELSE (segs[1][2] - segs[1][1]) + SegsLen(Tail(segs))

VecLen(v) == SegsLen(v.segs)

RECURSIVE SegsIndex(_, _)
SegsIndex(segs, j) ==
    IF j < segs[1][2] - segs[1][1] THEN segs[1][1] + j
    ELSE SegsIndex(Tail(segs), j - (segs[1][2] - segs[1][1]))

\* Position in the permutation of element j of v, and the element itself.
VecIndex(v, j) == SegsIndex(v.segs, j)
VecAt(v, j) == PermAt(v.code, v.D, VecIndex(v, j))

\* k.shuffle(&mut keys_rng): a permutation named by the stream; len - 1 samples.
shuffle(v, r) ==
    IF VecLen(v) < 2 THEN [vec |-> v, rng |-> r]
    ELSE [vec |-> [v EXCEPT !.code = ChaCha8Word(r.seed, r.pos)],
          rng |-> Advance(r, VecLen(v) - 1)]

\* k.get(from..to) of a whole (one-segment) vector: None when the range is
\* inverted or past the end.
get(v, from, to) ==
    IF from <= to /\ to <= VecLen(v)
    THEN Some([v EXCEPT !.segs = << <<v.segs[1][1] + from, v.segs[1][1] + to>> >>])
    ELSE None

\* a.append(&mut b)
append(a, b) == [a EXCEPT !.segs = a.segs \o b.segs]

\* slice.choose(&mut rng) on a non-empty slice: one index sample.
choose(v, r) == VecAt(v, sample(Uniform(0, VecLen(v) - 1), r))

NoVec == collect(0)
NoKeys == [k1 |-> NoVec, k2 |-> NoVec, k3 |-> NoVec]
NoStream == [seed |-> 0, pos |-> 0]

(* ------------------------------ schemas ------------------------------- *)

Field(name, type, nullable) == [name |-> name, type |-> type, nullable |-> nullable]

SchemaGroupby ==
    << Field("id1", "Utf8", TRUE), Field("id2", "Utf8", TRUE), Field("id3", "Utf8", TRUE),
       Field("id4", "Int64", TRUE), Field("id5", "Int64", TRUE), Field("id6", "Int64", TRUE),
       Field("v1", "Int64", FALSE), Field("v2", "Int64", FALSE), Field("v3", "Float64", FALSE) >>

SchemaSmall ==
    << Field("id1", "Int64", FALSE), Field("id4", "Utf8", FALSE), Field("v2", "Float64", FALSE) >>

SchemaMedium ==
    << Field("id1", "Int64", FALSE), Field("id2", "Int64", FALSE), Field("id4", "Utf8", FALSE),
       Field("id5", "Utf8", FALSE), Field("v2", "Float64", FALSE) >>

SchemaBig ==
    << Field("id1", "Int64", TRUE), Field("id2", "Int64", TRUE), Field("id3", "Int64", TRUE),
       Field("id4", "Utf8", FALSE), Field("id5", "Utf8", FALSE), Field("id6", "Utf8", FALSE),
       Field("v2", "Float64", TRUE) >>

Schema(variant) ==
    CASE variant = "groupby" -> SchemaGroupby
      [] variant = "small" -> SchemaSmall
      [] variant = "medium" -> SchemaMedium
      [] variant = "big" -> SchemaBig

\* RecordBatch::try_new(schema, columns): Ok iff the columns are equally long
\* and no column of a non-nullable field holds a null.
try_new(schema, columns) ==
    /\ \A a \in DOMAIN schema : \A b \in DOMAIN schema :
           Len(columns[schema[a].name]) = Len(columns[schema[b].name])
    /\ \A a \in DOMAIN schema :
           ~schema[a].nullable =>
               \A r \in 1 .. Len(columns[schema[a].name]) : columns[schema[a].name][r] # None

(* ------------------------------ inputs -------------------------------- *)

Seeds == 0 .. MaxSeed
KeysSeeds == 0 .. MaxKeysSeed
BatchSizes == 0 .. MaxBatch

Args(variant, n, k, nas, seed, keys_seed, batch_size) ==
    [variant |-> variant, n |-> n, k |-> k, nas |-> nas, seed |-> seed,
     keys_seed |-> keys_seed, batch_size |-> batch_size]

Inputs ==
    {Args("groupby", n, k, nas, s, 0, b) :
        n \in GroupbyN, k \in GroupbyK, nas \in NasValues, s \in Seeds, b \in BatchSizes}
    \cup {Args(v, n, 0, 0, s, ks, b) :
        v \in {"small", "medium"}, n \in JoinN, s \in Seeds, ks \in KeysSeeds, b \in BatchSizes}
    \cup {Args("big", n, 0, nas, s, ks, b) :
        n \in JoinN, nas \in NasValues, s \in Seeds, ks \in KeysSeeds, b \in BatchSizes}

Init ==
    /\ args \in Inputs
    /\ pc = "idle"
    /\ calls = 0
    /\ rng = NoStream
    /\ keys_rng = NoStream
    /\ keys = NoKeys
    /\ pools = NoKeys
    /\ cols = NoColumns
    /\ i = 0
    /\ log = <<>>
    /\ returned = <<>>

Ok(batch) == [ok |-> TRUE, batch |-> batch]
Err == [ok |-> FALSE, batch |-> NoColumns]

(* --------------------------- per-field steps -------------------------- *)

\* distr_nas.sample(&mut rng) >= nas: TRUE when the field gets a value.
gate(r) == sample(distr_nas, r) >= args.nas

\* if distr_nas.sample(&mut rng) >= nas { value from d } else { null }
gated_value_first(r, row, col, d) ==
    IF gate(Advance(r, 1))
    THEN [cell |-> Some(sample(d, r)), rng |-> Advance(r, 2),
          draws |-> <<Draw(r, row, col, "value"), Draw(Advance(r, 1), row, col, "gate")>>]
    ELSE [cell |-> None, rng |-> Advance(r, 2),
          draws |-> <<Draw(r, row, col, "value"), Draw(Advance(r, 1), row, col, "gate")>>]
gated(r, row, col, d) ==
    IF gate(r)
    THEN [cell |-> Some(sample(d, Advance(r, 1))), rng |-> Advance(r, 2),
          draws |-> <<Draw(r, row, col, "gate"), Draw(Advance(r, 1), row, col, "value")>>]
    ELSE [cell |-> None, rng |-> Advance(r, 1),
          draws |-> <<Draw(r, row, col, "gate")>>]

\* The builder call of either branch.
put_values_only(builder, cell) == IF cell = None THEN builder ELSE append_value(builder, cell[1])
put(builder, cell) == IF cell = None THEN append_null(builder) ELSE append_value(builder, cell[1])

formatted(width, cell) == IF cell = None THEN None ELSE Some(format_id(width, cell[1]))

\* A failed unwrap() or expect(..): the call never returns.
Panic ==
    /\ pc' = "panic"
    /\ UNCHANGED <<args, calls, rng, keys_rng, keys, pools, cols, i, log, returned>>

\* RecordBatch::try_new(..).unwrap(), then Ok(PyArrowType(batch)).
Finish ==
    IF try_new(Schema(args.variant), cols)
    THEN /\ pc' = "idle"
         /\ calls' = calls + 1
         /\ returned' = Append(returned, Ok(cols))
         /\ UNCHANGED <<args, rng, keys_rng, keys, pools, cols, i, log>>
    ELSE Panic

(* --------------------------- generate_groupby ------------------------- *)

generate_groupby_begin ==
    /\ pc = "idle"
    /\ args.variant = "groupby"
    /\ calls < MaxCalls
    /\ IF RangeOk(distr_k) /\ RangeOk(distr_nk)
       THEN /\ pc' = "groupby"
            /\ rng' = seed_from_u64(args.seed)
            /\ cols' = NoColumns
            /\ i' = 0
            /\ log' = <<>>
            /\ UNCHANGED <<calls, returned>>
       ELSE /\ pc' = "idle"
            /\ calls' = calls + 1
            /\ returned' = Append(returned, Err)
            /\ UNCHANGED <<rng, cols, i, log>>
    /\ UNCHANGED <<args, keys_rng, keys, pools>>

generate_groupby_row ==
    /\ pc = "groupby"
    /\ i < args.batch_size
    /\ LET id1 == gated(rng, i, "id1", distr_k)
           id2 == gated(id1.rng, i, "id2", distr_nk)
           id3 == gated(id2.rng, i, "id3", distr_nk)
           id4 == gated(id3.rng, i, "id4", distr_k)
           id5 == gated(id4.rng, i, "id5", distr_k)
           id6 == gated(id5.rng, i, "id6", distr_nk)
           r1 == id6.rng
           r2 == Advance(r1, 1)
           r3 == Advance(r2, 1)
       IN /\ cols' = [cols EXCEPT
                 !.id1 = put(@, formatted(3, id1.cell)),
                 !.id2 = put(@, formatted(3, id2.cell)),
                 !.id3 = put(@, formatted(10, id3.cell)),
                 !.id4 = put(@, id4.cell),
                 !.id5 = put(@, id5.cell),
                 !.id6 = put(@, id6.cell),
                 !.v1 = append_value(@, sample(distr_5, r1)),
                 !.v2 = append_value(@, sample(distr_15, r2)),
                 !.v3 = append_value(@, sample(distr_float_groupby, r3))]
          /\ rng' = Advance(r3, 1)
          /\ log' = log \o id1.draws \o id2.draws \o id3.draws \o id4.draws
                        \o id5.draws \o id6.draws
                        \o <<Draw(r1, i, "v1", "value"), Draw(r2, i, "v2", "value"),
                             Draw(r3, i, "v3", "value")>>
    /\ i' = i + 1
    /\ UNCHANGED <<pc, args, calls, keys_rng, keys, pools, returned>>

generate_groupby_finish ==
    /\ pc = "groupby"
    /\ i >= args.batch_size
    /\ Finish

(* ----------------------- join key pools ------------------------------ *)

\* x = k[0 .. n*9/10/scale), r = k[n/scale .. n*11/10/scale); x.append(r).
\* None when either get(..) is None (the expect(..) panics).
split_xr_keep_l(k, n, scale) ==
    LET x == get(k, 0, (((n * 9) \div 10) \div scale))
        r == get(k, (((n * 9) \div 10) \div scale), (((n * 11) \div 10) \div scale))
    IN IF x = None \/ r = None THEN None ELSE Some(append(x[1], r[1]))
split_xr(k, n, scale) ==
    LET x == get(k, 0, (((n * 9) \div 10) \div scale))
        r == get(k, n \div scale, (((n * 11) \div 10) \div scale))
    IN IF x = None \/ r = None THEN None ELSE Some(append(x[1], r[1]))

\* k = k[0 .. n/scale)
take_xl_as_xr(k, n, scale) == split_xr(k, n, scale)
take_xl(k, n, scale) == get(k, 0, n \div scale)

(* --------------------- generate_join_dataset_small -------------------- *)

generate_join_dataset_small_begin ==
    /\ pc = "idle"
    /\ args.variant = "small"
    /\ calls < MaxCalls
    /\ LET k1 == shuffle(collect((((args.n * 11) \div 10) \div MILLION)),
                         seed_from_u64(args.keys_seed))
           kx == split_xr(k1.vec, args.n, MILLION)
       IN IF kx = None
          THEN Panic
          ELSE /\ pc' = "small"
               /\ rng' = seed_from_u64(args.seed)
               /\ keys_rng' = k1.rng
               /\ keys' = [NoKeys EXCEPT !.k1 = k1.vec]
               /\ pools' = [NoKeys EXCEPT !.k1 = kx[1]]
               /\ cols' = NoColumns
               /\ i' = 0
               /\ log' = <<>>
               /\ UNCHANGED <<args, calls, returned>>

generate_join_dataset_small_row ==
    /\ pc = "small"
    /\ i < args.batch_size
    /\ IF VecLen(pools.k1) = 0
       THEN Panic
       ELSE LET k1 == choose(pools.k1, rng)
                r1 == Advance(rng, 1)
            IN /\ cols' = [cols EXCEPT
                      !.id1 = append_value(@, k1),
                      !.id4 = append_value(@, format_id(0, k1)),
                      !.v2 = append_value(@, sample(distr_float_join, r1))]
               /\ rng' = Advance(r1, 1)
               /\ log' = log \o <<Draw(rng, i, "id1", "value"), Draw(r1, i, "v2", "value")>>
               /\ i' = i + 1
               /\ UNCHANGED <<pc, args, calls, keys_rng, keys, pools, returned>>

generate_join_dataset_small_finish ==
    /\ pc = "small"
    /\ i >= args.batch_size
    /\ Finish

(* -------------------- generate_join_dataset_medium -------------------- *)

generate_join_dataset_medium_begin ==
    /\ pc = "idle"
    /\ args.variant = "medium"
    /\ calls < MaxCalls
    /\ LET k1 == shuffle(collect((((args.n * 11) \div 10) \div MILLION)),
                         seed_from_u64(args.keys_seed))
           k2 == shuffle(collect((((args.n * 11) \div 10) \div THOUSAND)), k1.rng)
           k1x == split_xr(k1.vec, args.n, MILLION)
           k2x == split_xr(k2.vec, args.n, MILLION)
       IN IF k1x = None \/ k2x = None
          THEN Panic
          ELSE /\ pc' = "medium"
               /\ rng' = seed_from_u64(args.seed)
               /\ keys_rng' = k2.rng
               /\ keys' = [NoKeys EXCEPT !.k1 = k1.vec, !.k2 = k2.vec]
               /\ pools' = [NoKeys EXCEPT !.k1 = k1x[1], !.k2 = k2x[1]]
               /\ cols' = NoColumns
               /\ i' = 0
               /\ log' = <<>>
               /\ UNCHANGED <<args, calls, returned>>

generate_join_dataset_medium_row ==
    /\ pc = "medium"
    /\ i < args.batch_size
    /\ IF VecLen(pools.k1) = 0 \/ VecLen(pools.k2) = 0
       THEN Panic
       ELSE LET k1 == choose(pools.k1, rng)
                r1 == Advance(rng, 1)
                k2 == choose(pools.k2, r1)
                r2 == Advance(r1, 1)
            IN /\ cols' = [cols EXCEPT
                      !.id1 = append_value(@, k1),
                      !.id2 = append_value(@, k2),
                      !.id4 = append_value(@, format_id(0, k1)),
                      !.id5 = append_value(@, format_id(0, k2)),
                      !.v2 = append_value(@, sample(distr_float_join, r2))]
               /\ rng' = Advance(r2, 1)
               /\ log' = log \o <<Draw(rng, i, "id1", "value"), Draw(r1, i, "id2", "value"),
                                  Draw(r2, i, "v2", "value")>>
               /\ i' = i + 1
               /\ UNCHANGED <<pc, args, calls, keys_rng, keys, pools, returned>>

generate_join_dataset_medium_finish ==
    /\ pc = "medium"
    /\ i >= args.batch_size
    /\ Finish

(* ---------------------- generate_join_dataset_big --------------------- *)

generate_join_dataset_big_begin ==
    /\ pc = "idle"
    /\ args.variant = "big"
    /\ calls < MaxCalls
    \* s1, s2, s3 are k1, k2, k3 as shuffled; the code then rebinds k1, k2, k3
    \* to their prefixes, kept here in pools.
    /\ LET s1 == shuffle(collect((((args.n * 11) \div 10) \div MILLION)),
                         seed_from_u64(args.keys_seed))
           s2 == shuffle(collect((((args.n * 11) \div 10) \div THOUSAND)), s1.rng)
           s3 == shuffle(collect((args.n * 11) \div 10), s2.rng)
           k1 == take_xl(s1.vec, args.n, MILLION)
           k2 == take_xl(s2.vec, args.n, THOUSAND)
           k3 == take_xl(s3.vec, args.n, 1)
       IN IF k1 = None \/ k2 = None \/ k3 = None
          THEN Panic
          ELSE /\ pc' = "big"
               /\ rng' = seed_from_u64(args.seed)
               /\ keys_rng' = s3.rng
               /\ keys' = [k1 |-> s1.vec, k2 |-> s2.vec, k3 |-> s3.vec]
               /\ pools' = [k1 |-> k1[1], k2 |-> k2[1], k3 |-> k3[1]]
               /\ cols' = NoColumns
               /\ i' = 0
               /\ log' = <<>>
               /\ UNCHANGED <<args, calls, returned>>

generate_join_dataset_big_row ==
    /\ pc = "big"
    /\ i < args.batch_size
    /\ IF VecLen(pools.k1) = 0 \/ VecLen(pools.k2) = 0 \/ VecLen(pools.k3) = 0
       THEN Panic
       ELSE LET k1 == choose(pools.k1, rng)
                r1 == Advance(rng, 1)
                k2 == choose(pools.k2, r1)
                r2 == Advance(r1, 1)
                k3 == choose(pools.k3, r2)
                r3 == Advance(r2, 1)
                r4 == Advance(r3, 1)
                r5 == Advance(r4, 1)
                r6 == Advance(r5, 1)
                v2 == gated(r6, i, "v2", distr_float_join)
            IN /\ cols' = [cols EXCEPT
                      !.id1 = put(@, IF gate(r3) THEN Some(k1) ELSE None),
                      !.id2 = put(@, IF gate(r4) THEN Some(k2) ELSE None),
                      !.id3 = put(@, IF gate(r5) THEN Some(k3) ELSE None),
                      !.id4 = append_value(@, format_id(0, k1)),
                      !.id5 = append_value(@, format_id(0, k2)),
                      !.id6 = append_value(@, format_id(0, k2)),
                      !.v2 = put(@, v2.cell)]
               /\ rng' = v2.rng
               /\ log' = log \o <<Draw(rng, i, "id1", "value"), Draw(r1, i, "id2", "value"),
                                  Draw(r2, i, "id3", "value"), Draw(r3, i, "id1", "gate"),
                                  Draw(r4, i, "id2", "gate"), Draw(r5, i, "id3", "gate")>>
                              \o v2.draws
               /\ i' = i + 1
               /\ UNCHANGED <<pc, args, calls, keys_rng, keys, pools, returned>>

generate_join_dataset_big_finish ==
    /\ pc = "big"
    /\ i >= args.batch_size
    /\ Finish

Next ==
    \/ generate_groupby_begin
    \/ generate_groupby_row
    \/ generate_groupby_finish
    \/ generate_join_dataset_small_begin
    \/ generate_join_dataset_small_row
    \/ generate_join_dataset_small_finish
    \/ generate_join_dataset_medium_begin
    \/ generate_join_dataset_medium_row
    \/ generate_join_dataset_medium_finish
    \/ generate_join_dataset_big_begin
    \/ generate_join_dataset_big_row
    \/ generate_join_dataset_big_finish

Spec == Init /\ [][Next]_vars

(* ====================================================================== *)
(*                               Properties                               *)
(* ====================================================================== *)

Running == pc \in {"groupby", "small", "medium", "big"}

\* The batches that exist: the one being built and those already returned.
Batches ==
    (IF Running THEN {cols} ELSE {})
    \cup {returned[j].batch : j \in {x \in DOMAIN returned : returned[x].ok}}

Returned == {returned[j].batch : j \in {x \in DOMAIN returned : returned[x].ok}}

Fields(variant) == {Schema(variant)[j] : j \in DOMAIN Schema(variant)}

Rows(col) == 1 .. Len(col)
NonNullRows(col) == {r \in Rows(col) : col[r] # None}

FloorDiv(a, b) == a \div b

\* The elements P[from .. to) of a shuffled key vector.
SliceSet(P, from, to) == {VecAt(P, j) : j \in from .. (to - 1)}

(* ------------------------------- C1 ----------------------------------- *)

\* C1 (determinism): the arguments of a behaviour are fixed, so any two calls
\* that have returned were made with identical arguments; they returned the
\* same result, column by column and row by row, nulls included.
Determinism ==
    \A a \in DOMAIN returned : \A b \in DOMAIN returned : returned[a] = returned[b]

\* Two calls returned a two-row batch holding both a null and a value.
DeterminismWitness ==
    /\ Len(returned) = 2
    /\ returned[1].ok /\ returned[2].ok
    /\ Len(returned[2].batch.id1) = 2
    /\ returned[2].batch.id1[1] = None
    /\ returned[2].batch.id1[2] # None

(* ------------------------------- C2 ----------------------------------- *)

\* C2 (shape): while a call runs, after i iterations every column of its
\* schema holds exactly i entries; every column of a returned batch holds
\* exactly batch_size entries; a column declared non-nullable holds no null.
Shape ==
    /\ Running => \A f \in Fields(args.variant) : Len(cols[f.name]) = i
    /\ \A B \in Returned : \A f \in Fields(args.variant) :
            Len(B[f.name]) = args.batch_size
    /\ \A B \in Batches : \A f \in Fields(args.variant) :
            ~f.nullable => NonNullRows(B[f.name]) = Rows(B[f.name])

\* A returned join-big batch of two rows whose nullable id1 is all null.
ShapeWitness ==
    /\ args.variant = "big"
    /\ args.batch_size = 2
    /\ Len(returned) >= 1
    /\ returned[1].ok
    /\ returned[1].batch.id1 = <<None, None>>

(* ------------------------------- C3 ----------------------------------- *)

\* Every key of `col` is in P[0 .. floor(n*0.9/scale)) or in
\* P[floor(n/scale) .. D) and not in the slice between them.
InKeptSlices(col, P, n, scale) ==
    LET a == FloorDiv(n * 9, 10 * scale)
        b == FloorDiv(n, scale)
        D == FloorDiv(n * 11, 10 * scale)
        kept == SliceSet(P, 0, a) \cup SliceSet(P, b, D)
        skipped == SliceSet(P, a, b)
    IN \A r \in NonNullRows(col) : col[r][1] \in kept /\ col[r][1] \notin skipped

\* C3 (key-population bound): in join-small and join-medium every id1 key
\* (scale 1e6) and, for medium, every id2 key (scale 1e3) comes from the
\* kept slices of the column's permutation, never from the skipped slice.
KeyPopulationBound ==
    args.variant \in {"small", "medium"} =>
        \A B \in Batches :
            /\ InKeptSlices(B.id1, keys.k1, args.n, MILLION)
            /\ args.variant = "medium" => InKeptSlices(B.id2, keys.k2, args.n, THOUSAND)

\* A join-medium call over a permutation with a non-empty skipped slice
\* has emitted two different id1 keys.
KeyPopulationWitness ==
    /\ pc = "medium"
    /\ args.n = 3000000
    /\ i = 2
    /\ cols.id1[1] # cols.id1[2]
    /\ keys.k1.code # 0

(* ------------------------------- C4 ----------------------------------- *)

Mirrors(ints, strs) ==
    \A r \in NonNullRows(ints) :
        r \in Rows(strs) => strs[r] = Some(format_id(0, ints[r][1]))

\* C4 (mirrored formatting): in every join generator, in each row whose
\* integer key is non-null, the paired string (id1/id4, id2/id5, id3/id6)
\* is "id{k}" of that row's key.
MirroredFormatting ==
    args.variant \in {"small", "medium", "big"} =>
        \A B \in Batches :
            /\ Mirrors(B.id1, B.id4)
            /\ Mirrors(B.id2, B.id5)
            /\ Mirrors(B.id3, B.id6)

(* ------------------------------- C5 ----------------------------------- *)

NullableColumns(variant) == {f.name : f \in {g \in Fields(variant) : g.nullable}}

\* C5 (null gate probability): of the equally likely gate draws the fraction
\* nas/100 yields a null; nas = 0 yields no null and nas = 100 yields a null
\* in every nullable cell.
NullGateProbability ==
    (Running /\ i >= 1 /\ args.variant \in {"groupby", "big"}) =>
        /\ Cardinality({d \in Support(distr_nas) : ~(d >= args.nas)}) * 100
               = args.nas * Cardinality(Support(distr_nas))
        /\ args.nas = 0 =>
               \A c \in NullableColumns(args.variant) : NonNullRows(cols[c]) = Rows(cols[c])
        /\ args.nas = 100 =>
               \A c \in NullableColumns(args.variant) : NonNullRows(cols[c]) = {}

(* ------------------------------- C6 ----------------------------------- *)

StringsWithin(col, lo, hi) ==
    \A r \in NonNullRows(col) : NumberOf(col[r][1].digits) \in lo .. hi
IntsWithin(col, lo, hi) ==
    \A r \in NonNullRows(col) : col[r][1] \in lo .. hi

\* C6 (range containment, group-by): id1, id2, id4, id5 lie in [1, k];
\* id3, id6 in [1, floor(n/k)]; v1 in [1,5]; v2 in [1,15].
RangeContainment ==
    (args.variant = "groupby" /\ 1 <= args.k /\ args.k <= args.n) =>
        \A B \in Batches :
            /\ StringsWithin(B.id1, 1, args.k)
            /\ StringsWithin(B.id2, 1, args.k)
            /\ StringsWithin(B.id3, 1, FloorDiv(args.n, args.k))
            /\ IntsWithin(B.id4, 1, args.k)
            /\ IntsWithin(B.id5, 1, args.k)
            /\ IntsWithin(B.id6, 1, FloorDiv(args.n, args.k))
            /\ IntsWithin(B.v1, 1, 5)
            /\ IntsWithin(B.v2, 1, 15)

(* ------------------------------- C7 ----------------------------------- *)

VecEq(a, b) ==
    /\ VecLen(a) = VecLen(b)
    /\ \A j \in 0 .. (VecLen(a) - 1) : VecAt(a, j) = VecAt(b, j)

\* P[0 .. floor(n*0.9/scale)) ++ P[floor(n/scale) .. floor(n*1.1/scale))
PartitionOf(P, n, scale) ==
    [P EXCEPT !.segs = << <<0, FloorDiv(n * 9, 10 * scale)>>,
                          <<FloorDiv(n, scale), FloorDiv(n * 11, 10 * scale)>> >>]

\* C7 (per-column pools, join-medium): each key column's pool is cut from
\* its own permutation with its own scale: id1 with 1e6, id2 with 1e3.
PerColumnPools ==
    pc = "medium" =>
        /\ VecEq(pools.k1, PartitionOf(keys.k1, args.n, MILLION))
        /\ VecEq(pools.k2, PartitionOf(keys.k2, args.n, THOUSAND))

(* ------------------------------- C8 ----------------------------------- *)

\* C8 (join-big pool, as claimed): the pool of a key column is the set
\* 1..floor(n/scale) whatever the keys_seed, so non-null id1, id2, id3 lie
\* in [1, floor(n/1e6)], [1, floor(n/1e3)], [1, n].
BigPoolIsRange ==
    args.variant = "big" =>
        /\ pc = "big" => SliceSet(pools.k1, 0, VecLen(pools.k1)) = 1 .. FloorDiv(args.n, MILLION)
        /\ \A B \in Batches :
               /\ IntsWithin(B.id1, 1, FloorDiv(args.n, MILLION))
               /\ IntsWithin(B.id2, 1, FloorDiv(args.n, THOUSAND))
               /\ IntsWithin(B.id3, 1, args.n)

\* P[0 .. floor(n/scale))
PrefixOf(P, n, scale) == [P EXCEPT !.segs = << <<0, FloorDiv(n, scale)>> >>]

\* C8 (amended): the pool of a key column is the first floor(n/scale)
\* elements of the keys_seed permutation of 1..floor(n*1.1/scale), no slice
\* skipped, so non-null id1, id2, id3 lie in [1, floor(n*1.1/1e6)],
\* [1, floor(n*1.1/1e3)], [1, floor(n*1.1)], and id1 is an element of its pool.
BigPoolIsPrefix ==
    args.variant = "big" =>
        /\ pc = "big" =>
               /\ keys.k1.D = FloorDiv(args.n * 11, 10 * MILLION)
               /\ keys.k2.D = FloorDiv(args.n * 11, 10 * THOUSAND)
               /\ keys.k3.D = FloorDiv(args.n * 11, 10)
               /\ pools.k1 = PrefixOf(keys.k1, args.n, MILLION)
               /\ pools.k2 = PrefixOf(keys.k2, args.n, THOUSAND)
               /\ pools.k3 = PrefixOf(keys.k3, args.n, 1)
               /\ \A r \in NonNullRows(cols.id1) :
                      cols.id1[r][1] \in SliceSet(keys.k1, 0, FloorDiv(args.n, MILLION))
        /\ \A B \in Batches :
               /\ IntsWithin(B.id1, 1, FloorDiv(args.n * 11, 10 * MILLION))
               /\ IntsWithin(B.id2, 1, FloorDiv(args.n * 11, 10 * THOUSAND))
               /\ IntsWithin(B.id3, 1, FloorDiv(args.n * 11, 10))

\* A join-big row holds a non-null id1 above floor(n/1e6).
BigPoolWitness ==
    /\ pc = "big"
    /\ i >= 1
    /\ cols.id1[1] # None
    /\ cols.id1[1][1] > FloorDiv(args.n, MILLION)

(* ------------------------------- C9 ----------------------------------- *)

Shaped(row, col, kind) == [row |-> row, col |-> col, kind |-> kind]
LogShape == [j \in 1 .. Len(log) |-> Shaped(log[j].row, log[j].col, log[j].kind)]

\* Each sample of the log took exactly one position of the row stream.
OneSampleEach ==
    /\ \A j \in 1 .. Len(log) : log[j].pos = j - 1
    /\ rng.pos = Len(log)

\* The samples of one field under gate-then-generate: a gate, then the
\* value sample unless the cell is null; an ungated field just its value.
FieldGateFirst(f, row) ==
    IF f.nullable
    THEN <<Shaped(row, f.name, "gate")>>
         \o (IF cols[f.name][row + 1] # None THEN <<Shaped(row, f.name, "value")>> ELSE <<>>)
    ELSE <<Shaped(row, f.name, "value")>>

\* Fields j.. of the schema, in schema order, leaving out the derived ones.
RECURSIVE RowGateFirst(_, _, _, _)
RowGateFirst(schema, sampled, j, row) ==
    IF j > Len(schema) THEN <<>>
    ELSE (IF schema[j].name \in sampled THEN FieldGateFirst(schema[j], row) ELSE <<>>)
         \o RowGateFirst(schema, sampled, j + 1, row)

RECURSIVE LogGateFirst(_, _, _)
LogGateFirst(schema, sampled, row) ==
    IF row >= i THEN <<>>
    ELSE RowGateFirst(schema, sampled, 1, row) \o LogGateFirst(schema, sampled, row + 1)

GroupbyGateFirst ==
    pc = "groupby" => (LogShape = LogGateFirst(SchemaGroupby, Columns, 0) /\ OneSampleEach)

\* C9 (gate-then-generate, as claimed): in group-by and join-big the samples
\* of a row are, field by field in schema order, the gate and then the value
\* sample, the latter skipped for a null.
GateThenGenerate ==
    /\ GroupbyGateFirst
    /\ pc = "big" =>
           (LogShape = LogGateFirst(SchemaBig, {"id1", "id2", "id3", "v2"}, 0) /\ OneSampleEach)

\* A join-big row: the three keys first, whatever the gates say, then the
\* gates of id1, id2, id3, then v2 gate-then-generate.
RowBig(row) ==
    << Shaped(row, "id1", "value"), Shaped(row, "id2", "value"), Shaped(row, "id3", "value"),
       Shaped(row, "id1", "gate"), Shaped(row, "id2", "gate"), Shaped(row, "id3", "gate") >>
    \o FieldGateFirst(SchemaBig[7], row)

RECURSIVE LogBig(_)
LogBig(row) == IF row >= i THEN <<>> ELSE RowBig(row) \o LogBig(row + 1)

\* C9 (amended): gate-then-generate holds for the six nullable fields of
\* group-by and for v2 of join-big; the keys of join-big are sampled first,
\* one sample each whether or not the field is null, and the gates of id1,
\* id2, id3 follow in that order, one sample each.
GateOrder ==
    /\ GroupbyGateFirst
    /\ pc = "big" => (LogShape = LogBig(0) /\ OneSampleEach)

\* A group-by row with a null id1 and a non-null id2.
GateOrderWitness ==
    /\ pc = "groupby"
    /\ i = 2
    /\ cols.id1[1] = None
    /\ cols.id2[1] # None

(* ------------------------------- C10 ---------------------------------- *)

\* C10 (no per-row failure): for n > 1e6 the sampling pools of a running
\* join call are non-empty and no call panics.
NoPerRowFailure ==
    args.n > MILLION =>
        /\ pc # "panic"
        /\ pc = "small" => VecLen(pools.k1) > 0
        /\ pc = "medium" => VecLen(pools.k1) > 0 /\ VecLen(pools.k2) > 0
        /\ pc = "big" => VecLen(pools.k1) > 0 /\ VecLen(pools.k2) > 0 /\ VecLen(pools.k3) > 0

====
